---- MODULE Spec2Model ----
(***************************************************************************)
(* A model of nombot's API core:                                           *)
(*   src/nombot/api/services/ccxt.py  CCXTExchange, CCXT, CCXTApi          *)
(*   src/app/api.py                   ApiProduct, WsAdapter, ApiAdapter    *)
(*   src/api/response.py              Result, ResponseSchema               *)
(*                                                                         *)
(* Python values are modelled as follows.  An optional value (None or a    *)
(* value) is a set with no or one element.  A dict is the sequence of its  *)
(* keys in insertion order, or a function where the order plays no part.   *)
(* An exception is the name of its class; NoExc stands for a normal        *)
(* return.                                                                 *)
(***************************************************************************)
EXTENDS Integers, Sequences, FiniteSets, TLC

VARIABLES
    exch,        \* one CCXTExchange object (metadata loader)
    exch_exc,    \* its construction phase, what its last load raised, that
                 \* load's reload argument and whether it invoked load_markets
    class_ex,    \* CCXT._ex, the class-level dict: its keys in insertion order
    objs,        \* CCXT._ex's values: exchange name -> CCXTExchange object
    released,    \* the exchanges whose client connection close() has closed
    loop_closed, \* CCXTExchange.loop, the class-level event loop, is closed
    tasks,       \* asyncio.Task.all_tasks(): the tasks outstanding on the loop
    facade,      \* facade instance -> the exchanges it was configured with
    fan,         \* the last facade operation and what came of it
    keep_going,  \* adapter -> its keep_going flag, in the orchestrator's process
    api,         \* adapter -> its operation handle (self.api)
    calls,       \* adapter -> context["calls"]: call name -> call data
    worker,      \* adapter -> the process that run() forked to execute loop()
    class_sched, \* ApiAdapter.scheduler, the class-level scheduler, as it is in
                 \* the orchestrator's process: its queue
    now,         \* time.time()
    last_call,   \* the last ApiAdapter.call and what it did
    last_exec,   \* the last execution of a thunk (mthd) and what it did
    shaped,      \* the last run of the result shaper: its input and output
    wsock,       \* the WsAdapter: its flag, handle, subscriptions, connection
    ws_last,     \* the last inbound message and what _generate_result did
    contexts,    \* the mapping ApiMetaAdapter is given: name -> context
    meta,        \* ApiMetaAdapter: its two lists, and where run/shutdown is
    adapters,    \* list -> context -> that adapter's handle, process and flag
    procs        \* context -> the worker of its scheduled adapter and the
                 \* exchange calls it makes

loaderVars == <<exch, exch_exc>>

fanVars == <<class_ex, objs, released, loop_closed, tasks, facade, fan>>

adapterVars ==
    <<keep_going, api, calls, worker, class_sched, now, last_call, last_exec>>

shapeVars == <<shaped>>

wsVars == <<wsock, ws_last>>

metaVars == <<contexts, meta, adapters, procs>>

nonLoaderVars == <<fanVars, adapterVars, shapeVars, wsVars, metaVars>>

nonFanVars == <<loaderVars, adapterVars, shapeVars, wsVars, metaVars>>

nonAdapterVars == <<loaderVars, fanVars, shapeVars, wsVars, metaVars>>

nonShapeVars == <<loaderVars, fanVars, adapterVars, wsVars, metaVars>>

nonWsVars == <<loaderVars, fanVars, adapterVars, shapeVars, metaVars>>

\* The orchestrator's process also holds the class-level state of the facade.
nonMetaVars ==
    <<loaderVars, tasks, facade, fan, adapterVars, shapeVars, wsVars>>

vars ==
    <<exch, exch_exc, class_ex, objs, released, loop_closed, tasks, facade,
      fan,
      keep_going, api, calls, worker, class_sched, now, last_call, last_exec,
      shaped, wsock, ws_last, contexts, meta, adapters, procs>>

(***************************************************************************)
(* Python values                                                           *)
(***************************************************************************)
None == {}

Some(v) == {v}

Get(opt) == CHOOSE v \in opt : TRUE

NoExc == "none"

\* The elements of a sequence.
Range(s) == {s[i] : i \in DOMAIN s}

\* All sequences over S of length at most n.
SeqUpTo(S, n) == UNION {[1..k -> S] : k \in 0..n}

\* list(dict.fromkeys(s)): the first occurrence of each element, in order.
RECURSIVE Dedup(_)
Dedup(s) ==
    IF s = <<>> THEN <<>>
    ELSE LET front == Dedup(SubSeq(s, 1, Len(s) - 1))
             last == s[Len(s)]
         IN  IF last \in Range(front) THEN front ELSE Append(front, last)

(***************************************************************************)
(* Bounds of the loader's inputs                                           *)
(***************************************************************************)
\* The longest configured-currency list.
MaxCurrencies == 2

\* Currency codes, in the key order of an exchange's currency catalogue.
CodeOrder == <<"BTC", "ETH", "USD">>

CurrencyCodes == Range(CodeOrder)

\* The symbols an exchange may list.
ListedSymbols == {"BTC/USD", "ETH/USD", "USD/USD"}

(***************************************************************************)
(* CCXTExchange.load                                                       *)
(***************************************************************************)
\* "/".join(pair)
Join(a, b) == a \o "/" \o b

\* What the exchange client holds after load_markets: the markets it returns
\* (their keys), and its currencies and symbols attributes.  ccxt derives
\* symbols from the markets' keys; an absent attribute reads as empty.
CatalogueOf(m, cs, s) ==
    [markets |-> m, currencies |-> SelectSeq(CodeOrder, LAMBDA c : c \in cs),
     symbols |-> s]

Catalogues ==
    UNION {{CatalogueOf(m, cs, m), CatalogueOf(m, cs, {})} :
               m \in SUBSET ListedSymbols, cs \in SUBSET CurrencyCodes}

\* itertools.product(keys, keys), row by row, keeping the pairs whose join is
\* an available symbol.
RECURSIVE ProductSymbols(_, _, _, _)
ProductSymbols(keys, i, j, avail) ==
    IF i > Len(keys) THEN <<>>
    ELSE IF j > Len(keys) THEN ProductSymbols(keys, i + 1, 1, avail)
    ELSE LET sym == Join(keys[i], keys[j])
             rest == ProductSymbols(keys, i, j + 1, avail)
         IN  IF sym \in avail THEN <<sym>> \o rest ELSE rest

\* The configured currencies the exchange offers, in configured order.
RelevantCurrencies(configured, avail) ==
    Dedup(SelectSeq(configured, LAMBDA c : c \in Range(avail)))

\* A universe that keeps every pair, listed by the exchange or not.
DerivedSymbols_Unfiltered(keys, avail) ==
    ProductSymbols(keys, 1, 1, {Join(a, b) : a, b \in Range(keys)})

\* The derived symbol universe.
DerivedSymbols(keys, avail) == ProductSymbols(keys, 1, 1, avail)

\* The object after load(reload) has run to its end against catalogue cat.
Loaded(self, cat) ==
    LET cur == IF self.currencies = <<>>
               THEN cat.currencies
               ELSE RelevantCurrencies(self.currencies, cat.currencies)
        syms == DerivedSymbols(cur, cat.symbols)
    IN  [self EXCEPT !.avail_markets = Some(cat.markets),
                     !.avail_currencies = Some(cat.currencies),
                     !._currencies = Some(cur),
                     !.avail_symbols = Some(cat.symbols),
                     !.symbols = Some(syms),
                     !.markets = Some(syms)]

\* A test of the markets' truth value: an empty universe is loaded again.
LoadSkips_WhenNonEmpty(self, reload) ==
    self.markets # None /\ Get(self.markets) # <<>> /\ ~reload

\* load returns at once when the markets are there and no reload is asked.
LoadSkips(self, reload) == self.markets # None /\ ~reload

\* A CCXTExchange as the dataclass leaves it before __post_init__.
NewExchange(name, currencies) ==
    [name |-> name, currencies |-> currencies,
     avail_currencies |-> None, _currencies |-> None,
     avail_markets |-> None, markets |-> None,
     avail_symbols |-> None, symbols |-> None]

\* What load_markets does: it raises (None), or leaves a catalogue.
Fetches == {None} \cup {Some(cat) : cat \in Catalogues}

\* load(reload).  A load_markets that raises leaves the object as it was.
Load(reload, got) ==
    /\ exch_exc.phase = "ready"
    /\ UNCHANGED nonLoaderVars
    /\ IF LoadSkips(exch, reload)
       THEN /\ exch' = exch
            /\ exch_exc' = [exch_exc EXCEPT !.exc = NoExc, !.fetched = FALSE,
                                            !.reload = reload]
       ELSE IF got = None
       THEN /\ exch' = exch
            /\ exch_exc' = [exch_exc EXCEPT !.exc = "NetworkError",
                                            !.fetched = TRUE,
                                            !.reload = reload]
       ELSE /\ exch' = Loaded(exch, Get(got))
            /\ exch_exc' = [exch_exc EXCEPT !.exc = NoExc, !.fetched = TRUE,
                                            !.reload = reload]

\* __post_init__: the first load; a failure is fatal for the construction.
PostInit(got) ==
    /\ exch_exc.phase = "new"
    /\ UNCHANGED nonLoaderVars
    /\ IF got = None
       THEN /\ exch' = exch
            /\ exch_exc' = [exch_exc EXCEPT !.phase = "failed",
                                            !.exc = "NetworkError",
                                            !.fetched = TRUE]
       ELSE /\ exch' = Loaded(exch, Get(got))
            /\ exch_exc' = [exch_exc EXCEPT !.phase = "ready", !.exc = NoExc,
                                            !.fetched = TRUE]

(***************************************************************************)
(* The exchange facade: CCXT and CCXTApi                                   *)
(***************************************************************************)
\* ccxt.exchanges: the exchanges the client library knows, in its order.
ExchangeOrder == <<"A", "B">>

ExchangeNames == Range(ExchangeOrder)

\* The facade instances (one CCXTApi per adapter that is run).
FacadeIds == {"f1", "f2"}

\* The longest configured exchange list.
MaxExchanges == 2

\* What an exchange operation does when called: it returns, or raises.
Outcomes ==
    {"ok", "ExchangeNotAvailable", "ExchangeError", "TypeError", "ValueError"}

\* What an exchange operation does when called for a symbol.
SymbolOutcomes == {"ok", "ExchangeError", "TypeError"}

\* The exchange errors the dispatcher's except clauses name.
Swallowed == {"ExchangeNotAvailable", "ExchangeError"}

\* context["currencies"] of the facades.
FacadeCurrencies == <<"USD", "BTC">>

\* What each exchange lists.
ExchangeCatalogue(name) ==
    CASE name = "A" -> CatalogueOf({"BTC/USD", "ETH/USD"}, CurrencyCodes,
                                   {"BTC/USD", "ETH/USD"})
      [] name = "B" -> CatalogueOf({"BTC/USD", "USD/USD"}, {"BTC", "USD"},
                                   {"BTC/USD", "USD/USD"})
      [] OTHER -> CatalogueOf({}, {}, {})

\* CCXTExchange.call: what its caller sees of the operation's outcome.
ExchangeCall(outcome) ==
    IF outcome = "ok" THEN NoExc
    ELSE IF outcome = "TypeError" THEN "AttributeError"
    ELSE outcome

\* An except clause that catches whatever is raised.
Caught_Anything(exc) == TRUE

\* The except clause of the two dispatch loops.
Caught(exc) == exc \in Swallowed

\* CCXT.call_on_exchanges from the i-th entry of the class-level dict on;
\* acc holds the results so far and the exchanges called so far.
RECURSIVE CallOnExchangesFrom(_, _, _, _, _)
CallOnExchangesFrom(order, i, outcome, closed, acc) ==
    IF i > Len(order) THEN [acc EXCEPT !.returned = TRUE]
    ELSE IF closed THEN [acc EXCEPT !.exc = "RuntimeError"]
    ELSE LET name == order[i]
             seen == ExchangeCall(outcome[name])
             acc1 == [acc EXCEPT !.called = Append(@, name)]
         IN  IF seen = NoExc
             THEN CallOnExchangesFrom(order, i + 1, outcome, closed,
                      [acc1 EXCEPT !.results = @ \cup {name}])
             ELSE IF Caught(seen)
             THEN CallOnExchangesFrom(order, i + 1, outcome, closed, acc1)
             ELSE [acc1 EXCEPT !.exc = seen]

\* A mapping that keeps a failed symbol, with a null value.
InnerResults_NullOnFailure(results, sym, seen) == results \cup {sym}

\* results[sym] = await self.call(callname, sym, ...): the assignment is
\* reached when the call returns.
InnerResults(results, sym, seen) ==
    IF seen = NoExc THEN results \cup {sym} ELSE results

\* CCXTExchange.call_over_syms from the i-th key of self.markets on; outcome
\* is what the operation does for each symbol.
RECURSIVE ExchangeCallOverSyms(_, _, _, _)
ExchangeCallOverSyms(syms, i, outcome, acc) ==
    IF i > Len(syms) THEN acc
    ELSE LET sym == syms[i]
             seen == ExchangeCall(outcome[sym])
             acc1 == [acc EXCEPT !.called = Append(@, sym),
                                 !.results = InnerResults(@, sym, seen)]
         IN  IF seen = NoExc \/ Caught(seen)
             THEN ExchangeCallOverSyms(syms, i + 1, outcome, acc1)
             ELSE [acc1 EXCEPT !.exc = seen]

\* The keys of an exchange object's markets, in their order.
MarketKeys(ex) == Get(ex.markets)

\* CCXT.call_over_syms from the i-th entry of the class-level dict on; acc
\* holds the outer keys, the inner keys and the calls made so far.
RECURSIVE CallOverSymsFrom(_, _, _, _, _, _)
CallOverSymsFrom(order, i, exs, outcome, closed, acc) ==
    IF i > Len(order) THEN [acc EXCEPT !.returned = TRUE]
    ELSE IF closed THEN [acc EXCEPT !.exc = "RuntimeError"]
    ELSE LET name == order[i]
             inner == ExchangeCallOverSyms(MarketKeys(Get(exs[name])), 1,
                          [sym \in Range(MarketKeys(Get(exs[name]))) |->
                              outcome[<<name, sym>>]],
                          [results |-> {}, called |-> <<>>, exc |-> NoExc])
             acc1 == [acc EXCEPT
                         !.called = @ \o [k \in DOMAIN inner.called |->
                                              <<name, inner.called[k]>>]]
         IN  IF inner.exc = NoExc
             THEN CallOverSymsFrom(order, i + 1, exs, outcome, closed,
                      [acc1 EXCEPT
                          !.results = @ \cup {name},
                          !.inner = @ \cup {<<name, sym>> :
                                                sym \in inner.results}])
             ELSE IF Caught(inner.exc)
             THEN CallOverSymsFrom(order, i + 1, exs, outcome, closed, acc1)
             ELSE [acc1 EXCEPT !.exc = inner.exc]

\* CCXT.shutdown from the i-th entry on: each exchange runs close() on the
\* class-level loop and then closes that loop.
RECURSIVE ShutdownFrom(_, _, _)
ShutdownFrom(order, i, acc) ==
    IF i > Len(order) THEN acc
    ELSE IF acc.loop_closed THEN [acc EXCEPT !.exc = "RuntimeError"]
    ELSE ShutdownFrom(order, i + 1,
             [acc EXCEPT !.released = @ \cup {order[i]},
                         !.loop_closed = TRUE])

\* CCXT.__init__ from the i-th configured exchange on: each is constructed,
\* loaded on the class-level loop and stored in the class-level dict.
RECURSIVE InitFrom(_, _, _, _)
InitFrom(list, i, fail_at, acc) ==
    IF i > Len(list) THEN acc
    ELSE IF acc.loop_closed THEN [acc EXCEPT !.exc = "RuntimeError"]
    ELSE IF i = fail_at THEN [acc EXCEPT !.exc = "NetworkError"]
    ELSE LET name == list[i]
         IN  InitFrom(list, i + 1, fail_at,
                 [acc EXCEPT
                     !.class_ex = IF name \in Range(@) THEN @
                                  ELSE Append(@, name),
                     !.objs[name] = Some(Loaded(
                         NewExchange(name, FacadeCurrencies),
                         ExchangeCatalogue(name))),
                     !.released = @ \ {name}])

\* The exchanges CCXT.__init__ constructs for a configured list.
ExchangesOf(list) == IF list = <<>> THEN ExchangeOrder ELSE list

NoFan ==
    [op |-> "none", inst |-> "f1", exc |-> NoExc, returned |-> FALSE,
     results |-> {}, called |-> <<>>, outcome |-> <<>>, order |-> <<>>,
     outstanding |-> {}, cancelled |-> {}, inner |-> {}, closed |-> {}]

\* CCXTApi.__init__: CCXT(conf["exchanges"], context["currencies"]).
Construct(f, list, fail_at) ==
    LET done == InitFrom(ExchangesOf(list), 1, fail_at,
                    [class_ex |-> class_ex, objs |-> objs,
                     released |-> released, loop_closed |-> loop_closed,
                     exc |-> NoExc])
    IN  /\ facade[f] = None
        /\ class_ex' = done.class_ex
        /\ objs' = done.objs
        /\ released' = done.released
        /\ loop_closed' = loop_closed
        /\ facade' = IF done.exc = NoExc
                     THEN [facade EXCEPT ![f] = Some(Range(ExchangesOf(list)))]
                     ELSE facade
        /\ fan' = [NoFan EXCEPT !.op = "init", !.inst = f, !.exc = done.exc,
                                !.returned = (done.exc = NoExc)]
        /\ UNCHANGED tasks
        /\ UNCHANGED nonFanVars

\* CCXT.call_on_exchanges on instance f; outcome is what each exchange's
\* operation does when called.
CallOnExchanges(f, outcome) ==
    LET done == CallOnExchangesFrom(class_ex, 1, outcome, loop_closed,
                    [results |-> {}, called |-> <<>>, exc |-> NoExc,
                     returned |-> FALSE])
    IN  /\ facade[f] # None
        /\ fan' = [NoFan EXCEPT !.op = "call_on_exchanges", !.inst = f,
                                !.exc = done.exc,
                                !.returned = done.returned,
                                !.results = done.results,
                                !.called = done.called,
                                !.outcome = outcome,
                                !.order = class_ex]
        /\ UNCHANGED <<class_ex, objs, released, loop_closed, tasks, facade>>
        /\ UNCHANGED nonFanVars

\* The (exchange, symbol) combinations call_over_syms goes through.
SymbolCalls(order, exs) ==
    {<<n, sym>> : n \in Range(order), sym \in ListedSymbols} \cap
    UNION {{<<n, sym>> : sym \in Range(MarketKeys(Get(exs[n])))} :
               n \in Range(order)}

\* CCXT.call_over_syms on instance f; outcome is what each exchange's
\* operation does when called for each symbol.
CallOverSyms(f, outcome) ==
    LET done == CallOverSymsFrom(class_ex, 1, objs, outcome, loop_closed,
                    [results |-> {}, inner |-> {}, called |-> <<>>,
                     exc |-> NoExc, returned |-> FALSE])
    IN  /\ facade[f] # None
        /\ fan' = [NoFan EXCEPT !.op = "call_over_syms", !.inst = f,
                                !.exc = done.exc,
                                !.returned = done.returned,
                                !.results = done.results,
                                !.inner = done.inner,
                                !.called = done.called,
                                !.outcome = outcome,
                                !.order = class_ex]
        /\ UNCHANGED <<class_ex, objs, released, loop_closed, tasks, facade>>
        /\ UNCHANGED nonFanVars

\* The tasks the outstanding asyncio work may consist of.
TaskIds == {"t1"}

\* (task.cancel() for task in asyncio.Task.all_tasks()) as an expression
\* statement: all_tasks() is evaluated and the generator object is dropped
\* without being iterated, so cancel() is called on no task.
CancelRequested(all_tasks) == {t \in all_tasks : FALSE}

\* CCXTApi.shutdown: the generator of task.cancel() calls, then CCXT.shutdown.
Shutdown(f) ==
    LET cancelled == CancelRequested(tasks)
        done == ShutdownFrom(class_ex, 1,
                    [released |-> released, loop_closed |-> loop_closed,
                     exc |-> NoExc])
    IN  /\ facade[f] # None
        /\ released' = done.released
        /\ loop_closed' = done.loop_closed
        /\ fan' = [NoFan EXCEPT !.op = "shutdown", !.inst = f,
                                !.exc = done.exc,
                                !.returned = (done.exc = NoExc),
                                !.order = class_ex,
                                !.closed = done.released \ released,
                                !.outstanding = tasks,
                                !.cancelled = cancelled]
        /\ UNCHANGED <<class_ex, objs, tasks, facade>>
        /\ UNCHANGED nonFanVars

\* The exchange client leaves a task of its own on the event loop (its
\* rate-limit throttle, a pending request).
ClientSpawns(t) ==
    /\ class_ex # <<>>
    /\ ~loop_closed
    /\ t \notin tasks
    /\ tasks' = tasks \cup {t}
    /\ UNCHANGED <<class_ex, objs, released, loop_closed, facade, fan>>
    /\ UNCHANGED nonFanVars

FanIdle ==
    /\ class_ex = <<>>
    /\ objs = [n \in ExchangeNames |-> None]
    /\ released = {}
    /\ loop_closed = FALSE
    /\ tasks = {}
    /\ facade = [f \in FacadeIds |-> None]
    /\ fan = NoFan

FanNext ==
    \/ \E f \in FacadeIds, list \in SeqUpTo(ExchangeNames, MaxExchanges),
          fail_at \in 0..MaxExchanges :
           /\ fail_at <= Len(ExchangesOf(list))
           /\ Construct(f, list, fail_at)
    \/ \E f \in FacadeIds, outcome \in [Range(class_ex) -> Outcomes] :
           CallOnExchanges(f, outcome)
    \/ \E f \in FacadeIds,
          outcome \in [SymbolCalls(class_ex, objs) -> SymbolOutcomes] :
           CallOverSyms(f, outcome)
    \/ \E f \in FacadeIds : Shutdown(f)
    \/ \E t \in TaskIds : ClientSpawns(t)

(***************************************************************************)
(* The Scheduled Call Adapter: ApiProduct and ApiAdapter                   *)
(***************************************************************************)
\* The adapters the orchestrator holds, one per context.
AdapterIds == {"a1", "a2"}

\* The names context["calls"] may hold, in the dict's order.
CallOrder == <<"ticker", "orders">>

CallNames == Range(CallOrder)

\* The longest delay a call is configured with.
MaxDelay == 1

\* The priorities a call is configured with.
Priorities == {1, 2}

\* The clock stops here.
MaxTime == 2

\* A call's data: an absent delay or priority is None.
CallDatas ==
    {[delay |-> d, priority |-> p] :
        d \in {None} \cup {Some(x) : x \in 0..MaxDelay},
        p \in {None} \cup {Some(x) : x \in Priorities}}

PlainCall == [delay |-> None, priority |-> None]

\* context["calls"]: each name is absent (None) or has its call data.
CallConfigs == [CallNames -> {None} \cup {Some(cd) : cd \in CallDatas}]

\* The configured names, in the dict's order.
ConfiguredCalls(config) ==
    SelectSeq(CallOrder, LAMBDA c : config[c] # None)

\* An operation handle: the call names it has an attribute for, and its
\* ENDPOINT_OVERRIDES table (None when it has none), given by the names it
\* has an entry for.
Handles ==
    {[methods |-> m, overrides |-> o] :
        m \in SUBSET CallNames,
        o \in {None} \cup {Some(t) : t \in SUBSET CallNames}}

PlainHandle == [methods |-> {}, overrides |-> None]

\* The endpoint an ENDPOINT_OVERRIDES entry names.
EndpointOf(callname) == "v2/" \o callname

\* ApiAdapter.call's override lookup: getattr(self.api, callname, None),
\* then ENDPOINT_OVERRIDES.get(callname, None), then, when the handle has no
\* table (AttributeError), the literal name.
Resolve(handle, callname) ==
    IF callname \in handle.methods
    THEN [kind |-> "method", name |-> callname]
    ELSE IF handle.overrides = None
    THEN [kind |-> "name", name |-> callname]
    ELSE IF callname \in Get(handle.overrides)
    THEN [kind |-> "name", name |-> EndpointOf(callname)]
    ELSE [kind |-> "none", name |-> "None"]

\* callable(action)
Callable(action) == action.kind = "method"

\* What running a thunk meets: nothing, a request or a result that cannot be
\* shaped, a handle that raises, or a callback that raises.
ThunkOutcomes ==
    {"ok", "request_unshapable", "handle_raises", "result_unshapable",
     "callback_raises"}

\* mthd: shape the request, invoke the handle, shape the result and deliver
\* it to the callback.  _generate_request and _generate_result turn whatever
\* is raised inside them into an Exception naming the call: the request's
\* names the resolved action when that is not callable, the result's names
\* the call and also covers what the callback raises.
Thunk(callname, action, outcome) ==
    LET request_tag == IF Callable(action) THEN callname ELSE action.name
        invoked == IF Callable(action)
                   THEN [how |-> "method", name |-> callname]
                   ELSE [how |-> "api.call", name |-> action.name]
    IN  CASE outcome = "request_unshapable" ->
                 [exc |-> "Exception", diag |-> request_tag,
                  invoked |-> None, delivered |-> FALSE, met |-> outcome]
          [] outcome = "handle_raises" ->
                 [exc |-> "HandleError", diag |-> "",
                  invoked |-> Some(invoked), delivered |-> FALSE,
                  met |-> outcome]
          [] outcome = "result_unshapable" ->
                 [exc |-> "Exception", diag |-> callname,
                  invoked |-> Some(invoked), delivered |-> FALSE,
                  met |-> outcome]
          [] outcome = "callback_raises" ->
                 [exc |-> "Exception", diag |-> callname,
                  invoked |-> Some(invoked), delivered |-> TRUE,
                  met |-> outcome]
          [] OTHER ->
                 [exc |-> NoExc, diag |-> "",
                  invoked |-> Some(invoked), delivered |-> TRUE,
                  met |-> outcome]

\* sched.scheduler.enter(delay, priority, action, ...) needs both its delay
\* and its priority: a call without one of them is a TypeError.
EnterAccepts(cd) == cd.delay # None /\ cd.priority # None

\* The event scheduler.enter queues: due at time.time() + delay.  Its action
\* is the thunk, a closure over the adapter (self) whose call() made it.
Event(self, callname, action, cd, t) ==
    [time |-> t + Get(cd.delay), priority |-> Get(cd.priority),
     callname |-> callname, action |-> action,
     reg |-> t, delay |-> Get(cd.delay), owner |-> self]

\* self.call(callname, delay, priority) in a process whose scheduler queue
\* is queue: the queue it leaves, what it raised, and the thunk's execution
\* when it ran inline.
Call(self, handle, callname, cd, queue, t, outcome) ==
    LET action == Resolve(handle, callname)
        scheduled == cd.delay # None \/ cd.priority # None
    IN  IF scheduled
        THEN IF EnterAccepts(cd)
             THEN [queue |-> Append(queue,
                                    Event(self, callname, action, cd, t)),
                   exc |-> NoExc, action |-> action, ran |-> None]
             ELSE [queue |-> queue, exc |-> "TypeError",
                   action |-> action, ran |-> None]
        ELSE LET e == Thunk(callname, action, outcome)
             IN  [queue |-> queue, exc |-> e.exc, action |-> action,
                  ran |-> Some(e)]

\* A scheduler that hands out its earliest event whether due or not.
Due_Always(e, t) == TRUE

\* scheduler.run sleeps until its first event's time has come.
Due(e, t) == e.time <= t

\* The heap's order: by time, then by priority.
Before(e1, e2) ==
    \/ e1.time < e2.time
    \/ e1.time = e2.time /\ e1.priority < e2.priority

\* The events scheduler.run may pop next: none is before them.
Heads(queue) ==
    {i \in DOMAIN queue : \A j \in DOMAIN queue : ~Before(queue[j], queue[i])}

\* The queue without its i-th event.
Without(queue, i) ==
    SubSeq(queue, 1, i - 1) \o SubSeq(queue, i + 1, Len(queue))

NoWorker ==
    [pc |-> "none", keep_going |-> TRUE, idx |-> 0, queue |-> <<>>,
     late |-> FALSE, late_dispatch |-> FALSE]

NoAction == [kind |-> "none", name |-> "None"]

NoCall ==
    [adapter |-> "a1", callname |-> "", data |-> PlainCall,
     action |-> NoAction, registered |-> FALSE, ran |-> 0, exc |-> NoExc]

NoExec ==
    [adapter |-> "a1", callname |-> "", via |-> "none", reg |-> 0,
     delay |-> 0, priority |-> 0, at |-> 0, rest |-> <<>>,
     action |-> NoAction, res |-> None, owner |-> "a1"]

\* The record of a thunk's execution: a is the adapter whose process ran it,
\* the owner is the adapter the thunk belongs to.
Exec(a, callname, via, ev, rest, action, e) ==
    [adapter |-> a, callname |-> callname, via |-> via, reg |-> ev.reg,
     delay |-> ev.delay, priority |-> ev.priority, at |-> now,
     rest |-> rest, action |-> action, res |-> Some(e), owner |-> ev.owner]

\* ApiAdapter.run: construct the handle, then fork the process that runs
\* loop().  The child gets a copy of the adapter, and of the class-level
\* scheduler, as they are at the fork.
Run(a, handle) ==
    /\ worker[a].pc = "none"
    /\ api[a] = None
    /\ api' = [api EXCEPT ![a] = Some(handle)]
    /\ worker' = [worker EXCEPT ![a] =
                      [NoWorker EXCEPT !.pc = "top",
                                       !.keep_going = keep_going[a],
                                       !.queue = class_sched]]
    /\ UNCHANGED <<keep_going, calls, class_sched, now, last_call, last_exec>>
    /\ UNCHANGED nonAdapterVars

\* ApiProduct.shutdown, called in the orchestrator's process: it clears the
\* flag of the adapter object there, and shuts the handle down.
AdapterShutdown(a) ==
    /\ keep_going[a]
    /\ keep_going' = [keep_going EXCEPT ![a] = FALSE]
    /\ UNCHANGED <<api, calls, worker, class_sched, now, last_call, last_exec>>
    /\ UNCHANGED nonAdapterVars

\* loop(): the test of `while self.keep_going`, in the worker.  A pass that
\* begins when shutdown() has been called is marked late.
LoopTop(a) ==
    LET w == worker[a]
    IN  /\ w.pc = "top"
        /\ worker' = [worker EXCEPT ![a] =
               IF w.keep_going
               THEN [w EXCEPT !.pc = IF ConfiguredCalls(calls[a]) = <<>>
                                     THEN "sched" ELSE "calls",
                              !.idx = 1,
                              !.late = ~keep_going[a]]
               ELSE [w EXCEPT !.pc = "exited"]]
        /\ UNCHANGED <<keep_going, api, calls, class_sched, now, last_call,
                       last_exec>>
        /\ UNCHANGED nonAdapterVars

\* loop(): self.call(call, **calldata) for the next configured call.  What
\* call raises ends the worker.
LoopCall(a, outcome) ==
    LET w == worker[a]
        names == ConfiguredCalls(calls[a])
        callname == names[w.idx]
        cd == Get(calls[a][callname])
        done == Call(a, Get(api[a]), callname, cd, w.queue, now, outcome)
    IN  /\ w.pc = "calls"
        /\ worker' = [worker EXCEPT ![a] =
               [w EXCEPT !.pc = IF done.exc # NoExc THEN "crashed"
                                ELSE IF w.idx = Len(names) THEN "sched"
                                ELSE "calls",
                         !.idx = w.idx + 1,
                         !.queue = done.queue,
                         !.late_dispatch = @ \/ w.late]]
        /\ last_call' = [adapter |-> a, callname |-> callname, data |-> cd,
                         action |-> done.action,
                         registered |-> done.queue # w.queue,
                         ran |-> Cardinality(done.ran), exc |-> done.exc]
        /\ last_exec' = IF done.ran = None THEN last_exec
                        ELSE Exec(a, callname, "inline",
                                  [reg |-> now, delay |-> 0, priority |-> 0,
                                   owner |-> a],
                                  w.queue, done.action, Get(done.ran))
        /\ UNCHANGED <<keep_going, api, calls, class_sched, now>>
        /\ UNCHANGED nonAdapterVars

\* loop(): self.scheduler.run(), one event at a time.  It returns when the
\* queue is empty; until its first event is due it sleeps.
SchedulerRun(a, i, outcome) ==
    LET w == worker[a]
        ev == w.queue[i]
        e == Thunk(ev.callname, ev.action, outcome)
    IN  /\ w.pc = "sched"
        /\ IF w.queue = <<>>
           THEN /\ worker' = [worker EXCEPT ![a] = [w EXCEPT !.pc = "top"]]
                /\ UNCHANGED last_exec
           ELSE /\ i \in Heads(w.queue)
                /\ Due(ev, now)
                /\ worker' = [worker EXCEPT ![a] =
                       [w EXCEPT !.pc = IF e.exc # NoExc THEN "crashed"
                                        ELSE "sched",
                                 !.queue = Without(w.queue, i)]]
                /\ last_exec' = Exec(a, ev.callname, "scheduler", ev,
                                     Without(w.queue, i), ev.action, e)
        /\ UNCHANGED <<keep_going, api, calls, class_sched, now, last_call>>
        /\ UNCHANGED nonAdapterVars

\* Time passes.
Tick ==
    /\ now < MaxTime
    /\ now' = now + 1
    /\ UNCHANGED <<keep_going, api, calls, worker, class_sched, last_call,
                   last_exec>>
    /\ UNCHANGED nonAdapterVars

\* The longest queue of the orchestrator's scheduler.
MaxPending == 1

\* a.call(callname, **calldata) made in the orchestrator's process, on the
\* adapter that run() published as context["inst"]: scheduled work goes to
\* the class-level scheduler as that process has it.
OrchestratorCall(a, callname, cd, outcome) ==
    LET done == Call(a, Get(api[a]), callname, cd, class_sched, now, outcome)
    IN  /\ api[a] # None
        /\ Len(class_sched) < MaxPending
        /\ class_sched' = done.queue
        /\ last_call' = [adapter |-> a, callname |-> callname, data |-> cd,
                         action |-> done.action,
                         registered |-> done.queue # class_sched,
                         ran |-> Cardinality(done.ran), exc |-> done.exc]
        /\ last_exec' = IF done.ran = None THEN last_exec
                        ELSE Exec(a, callname, "inline",
                                  [reg |-> now, delay |-> 0, priority |-> 0,
                                   owner |-> a],
                                  class_sched, done.action, Get(done.ran))
        /\ UNCHANGED <<keep_going, api, calls, worker, now>>
        /\ UNCHANGED nonAdapterVars

\* A context without configured calls.
NoCalls == [c \in CallNames |-> None]

AdapterIdle ==
    /\ keep_going = [a \in AdapterIds |-> TRUE]
    /\ api = [a \in AdapterIds |-> None]
    /\ calls = [a \in AdapterIds |-> NoCalls]
    /\ worker = [a \in AdapterIds |-> NoWorker]
    /\ class_sched = <<>>
    /\ now = 0
    /\ last_call = NoCall
    /\ last_exec = NoExec

\* The longest scheduler queue of a worker: what it inherited and what its
\* configured calls register in a pass.
MaxQueue == MaxPending + Cardinality(CallNames)

\* The adapters that are run, the handles run() may construct for them and
\* what their thunks may meet.
AdapterNext(ids, handles, outcomes) ==
    \/ \E a \in ids, h \in handles : Run(a, h)
    \/ \E a \in ids : AdapterShutdown(a)
    \/ \E a \in ids : LoopTop(a)
    \/ \E a \in ids, o \in outcomes : LoopCall(a, o)
    \/ \E a \in ids, i \in 1..MaxQueue, o \in outcomes :
           SchedulerRun(a, i, o)
    \/ Tick

(***************************************************************************)
(* The result shaper: Result and ResponseSchema                            *)
(***************************************************************************)
\* The keys of RESPONSE_MAP.
ResponseMap ==
    {"accounts", "balances", "orders", "alerts", "newsFeed", "orderTypes",
     "refreshBalance", "addOrder", "exchanges", "markets", "data", "ticker",
     "ws_trade_ticker"}

\* The loaded payloads: an errors dict or none, a result or none.
Payloads ==
    [errors : {None, Some("{}"), Some("{code: 500}")},
     result : {None, Some("None"), Some(""), Some("tick")}]

\* The schema contexts: a channel or none, a call name or none.
Contexts ==
    [channel : {None, Some("trades")},
     callname : {None, Some("ticker"), Some("orders"), Some("balances"),
                 Some("candles")}]

\* Result(**kwargs): a keyword that is not given is None.
Result(channel, callname, result, errors) ==
    [channel |-> channel, callname |-> callname, result |-> result,
     errors |-> errors]

\* ResponseSchema.get_result: data.get("result", "")
GetResult(data) == IF data.result = None THEN "" ELSE Get(data.result)

\* RESPONSE_MAP[callname].dump(value): what the call's schema makes of it.
Dump(callname, value) == [schema |-> callname, data |-> value]

\* A shaper that fills the result next to the errors.
PopulateData_Both(data, context) ==
    IF context.callname = None \/ Get(context.callname) \notin ResponseMap
    THEN [exc |-> "KeyError", out |-> None]
    ELSE [exc |-> NoExc,
          out |-> Some(Result(context.channel, context.callname,
                       Some(Dump(Get(context.callname), GetResult(data))),
                       data.errors))]

\* ResponseSchema.populate_data: the Result of a loaded payload, or the
\* KeyError of a call name RESPONSE_MAP does not hold.
PopulateData(data, context) ==
    IF data.errors # None
    THEN [exc |-> NoExc,
          out |-> Some(Result(None, None, None, data.errors))]
    ELSE IF context.callname = None
            \/ Get(context.callname) \notin ResponseMap
    THEN [exc |-> "KeyError", out |-> None]
    ELSE [exc |-> NoExc,
          out |-> Some(Result(context.channel, context.callname,
                       Some(Dump(Get(context.callname), GetResult(data))),
                       None))]

NoShape ==
    [data |-> [errors |-> None, result |-> None],
     context |-> [channel |-> None, callname |-> None],
     ran |-> FALSE, exc |-> NoExc, out |-> None]

\* The shaper runs on a payload.
Shape(data, context) ==
    LET done == PopulateData(data, context)
    IN  /\ shaped' = [data |-> data, context |-> context, ran |-> TRUE,
                      exc |-> done.exc, out |-> done.out]
        /\ UNCHANGED nonShapeVars

ShapeIdle == shaped = NoShape

(***************************************************************************)
(* The Streaming Channel Adapter: WsAdapter                                *)
(***************************************************************************)
\* The channels context["conf"]["subscriptions"] may name.
Channels == {"trades", "book"}

\* Inbound messages; the schema cannot shape the last.
Messages == {"trade#1", "trade#2", "garbage"}

WellFormed(message) == message # "garbage"

\* The handle's own context object.
HandleContext == "api.context"

\* WsAdapter._generate_result: whatever is raised while the schema is
\* made, the message dumped or the callback run is raised again as an
\* Exception naming the channel and the message.
GenerateWsResult(channel, message, has_schema, cb_raises) ==
    IF ~has_schema \/ ~WellFormed(message)
    THEN [delivered |-> <<>>, exc |-> "Exception",
          diag |-> Some([channel |-> channel, data |-> message])]
    ELSE [delivered |-> <<[channel |-> channel,
                           item |-> Dump(channel, message),
                           context |-> HandleContext]>>,
          exc |-> IF cb_raises THEN "Exception" ELSE NoExc,
          diag |-> IF cb_raises
                   THEN Some([channel |-> channel, data |-> message])
                   ELSE None]

NoWs ==
    [keep_going |-> TRUE, started |-> FALSE, has_schema |-> TRUE,
     subscriptions |-> {}, connection |-> "none"]

NoMessage ==
    [channel |-> "", message |-> "", delivered |-> <<>>, exc |-> NoExc,
     diag |-> None]

\* WsAdapter.run: construct the handle and start the process that connects
\* and listens on one SockChannel per configured subscription.
WsRun(has_schema) ==
    /\ ~wsock.started
    /\ wsock' = [wsock EXCEPT !.started = TRUE, !.has_schema = has_schema,
                              !.connection = "open"]
    /\ UNCHANGED <<ws_last>>
    /\ UNCHANGED nonWsVars

\* ApiProduct.shutdown on the WsAdapter, in the orchestrator's process.
WsShutdown ==
    /\ wsock.keep_going
    /\ wsock' = [wsock EXCEPT !.keep_going = FALSE]
    /\ UNCHANGED <<ws_last>>
    /\ UNCHANGED nonWsVars

\* An inbound message on a subscribed channel reaches _generate_result.
\* Whether the connection outlives a failure is the socket library's affair.
WsMessage(channel, message, cb_raises, survives) ==
    LET done == GenerateWsResult(channel, message, wsock.has_schema, cb_raises)
    IN  /\ wsock.connection = "open"
        /\ channel \in wsock.subscriptions
        /\ ws_last' = [channel |-> channel, message |-> message,
                       delivered |-> done.delivered, exc |-> done.exc,
                       diag |-> done.diag]
        /\ wsock' = IF done.exc = NoExc \/ survives THEN wsock
                    ELSE [wsock EXCEPT !.connection = "failed"]
        /\ UNCHANGED nonWsVars

WsIdle ==
    /\ wsock = NoWs
    /\ ws_last = NoMessage

(***************************************************************************)
(* The orchestrator: ApiMetaAdapter and the adapters it holds              *)
(***************************************************************************)
\* The names the contexts mapping may hold, in the dict's order.
ContextOrder == <<"c1", "c2">>

ContextIds == Range(ContextOrder)

\* context["cls"]: the exchange facade, or a handle without exchanges and
\* without a shutdown method.
HandleClasses == {"CCXTApi", "Plain"}

\* A context: its handle class and conf["exchanges"].
ContextConfs ==
    {[cls |-> "Plain", exchanges |-> <<>>]} \cup
    {[cls |-> "CCXTApi", exchanges |-> l] :
        l \in {<<"A">>, <<"B">>, <<"A", "B">>}}

\* The contexts that are given, in the dict's order.
ContextNames(ctxs) == SelectSeq(ContextOrder, LAMBDA c : ctxs[c] # None)

\* A run that starts the scheduled adapters first.
Phases_ApisFirst == <<"apis", "wsocks">>

\* The order of the two for-loops of run() and of shutdown().
Phases == <<"wsocks", "apis">>

\* The list after list k in that order; "returned" after the last.
NextPhase(k) ==
    IF k = Phases[1] THEN Phases[2] ELSE "returned"

NoAdapter == [api |-> "none", proc |-> "none", keep_going |-> TRUE]

NoProc ==
    [pc |-> "none", order |-> <<>>, idx |-> 1, inflight |-> None, used |-> {}]

NoMeta ==
    [wsocks |-> <<>>, apis |-> <<>>, op |-> "none", pc |-> "idle", i |-> 1,
     exc |-> NoExc, at |-> <<>>]

\* ApiMetaAdapter.__init__: for each context a WsAdapter is appended to
\* wsocks and an ApiAdapter to apis.
MetaInit(ctxs) ==
    [NoMeta EXCEPT !.wsocks = ContextNames(ctxs), !.apis = ContextNames(ctxs)]

\* ex.loop: the attribute is the class's, so an exchange's loop is the one
\* event loop of the process the exchange object lives in.
LoopOf(proc, exchange) == <<"CCXTExchange.loop", proc>>

\* self.context.get("cls")(self.context), in the orchestrator's process: the
\* facade constructs and loads its exchanges (the load fails at the
\* fail_at-th, 0 for none); a plain handle raises or not.
ConstructHandle(conf, fail_at) ==
    LET acc == [class_ex |-> class_ex, objs |-> objs, released |-> released,
                loop_closed |-> loop_closed, exc |-> NoExc]
    IN  IF conf.cls = "CCXTApi"
        THEN InitFrom(ExchangesOf(conf.exchanges), 1, fail_at, acc)
        ELSE [acc EXCEPT !.exc = IF fail_at > 0 THEN "HandleError" ELSE NoExc]

\* ApiMetaAdapter.run is entered.
MetaRun ==
    /\ meta.op = "none"
    /\ meta' = [meta EXCEPT !.op = "run", !.pc = Phases[1], !.i = 1]
    /\ UNCHANGED <<contexts, adapters, procs>>
    /\ UNCHANGED <<class_ex, objs, released, loop_closed>>
    /\ UNCHANGED nonMetaVars

\* One iteration of run()'s loops: wsock.run() or api.run() for the next
\* adapter.  Both construct the handle in the orchestrator's process and
\* then start the adapter's own process; the construction may block, or
\* raise, which ends run().
MetaRunStep(fail_at, blocks) ==
    LET k == meta.pc
        c == meta[k][meta.i]
        conf == Get(contexts[c])
        done == ConstructHandle(conf, fail_at)
        last == meta.i = Len(meta[k])
    IN  /\ meta.op = "run"
        /\ meta.pc \in Range(Phases)
        /\ fail_at <= Len(ExchangesOf(conf.exchanges))
        /\ IF blocks
           THEN /\ meta' = [meta EXCEPT !.pc = "blocked", !.at = <<k, c>>]
                /\ UNCHANGED <<adapters, procs, class_ex, objs, released>>
           ELSE /\ class_ex' = done.class_ex
                /\ objs' = done.objs
                /\ released' = done.released
                /\ IF done.exc # NoExc
                   THEN /\ meta' = [meta EXCEPT !.pc = "raised",
                                                !.exc = done.exc,
                                                !.at = <<k, c>>]
                        /\ UNCHANGED <<adapters, procs>>
                   ELSE /\ meta' = [meta EXCEPT
                               !.pc = IF last THEN NextPhase(k) ELSE k,
                               !.i = IF last THEN 1 ELSE meta.i + 1]
                        /\ adapters' = [adapters EXCEPT ![k][c] =
                               [@ EXCEPT !.api = conf.cls,
                                         !.proc = "started"]]
                        /\ procs' = IF k = "apis"
                                    THEN [procs EXCEPT ![c] =
                                             [NoProc EXCEPT
                                                 !.pc = "idle",
                                                 !.order =
                                                     IF conf.cls = "CCXTApi"
                                                     THEN done.class_ex
                                                     ELSE <<>>]]
                                    ELSE procs
        /\ UNCHANGED <<contexts, loop_closed>>
        /\ UNCHANGED nonMetaVars

\* ApiMetaAdapter.shutdown is entered, after run() has returned or raised.
MetaShutdown ==
    /\ meta.op = "run"
    /\ meta.pc \in {"returned", "raised"}
    /\ meta' = [meta EXCEPT !.op = "shutdown", !.pc = Phases[1], !.i = 1,
                            !.exc = NoExc, !.at = <<>>]
    /\ UNCHANGED <<contexts, adapters, procs>>
    /\ UNCHANGED <<class_ex, objs, released, loop_closed>>
    /\ UNCHANGED nonMetaVars

\* One iteration of shutdown()'s loops: ApiProduct.shutdown of the next
\* adapter clears its flag and, when the handle has a shutdown method,
\* calls it; what that raises ends shutdown().
MetaShutdownStep ==
    LET k == meta.pc
        c == meta[k][meta.i]
        last == meta.i = Len(meta[k])
        done == IF adapters[k][c].api = "CCXTApi"
                THEN ShutdownFrom(class_ex, 1,
                         [released |-> released, loop_closed |-> loop_closed,
                          exc |-> NoExc])
                ELSE [released |-> released, loop_closed |-> loop_closed,
                      exc |-> NoExc]
    IN  /\ meta.op = "shutdown"
        /\ meta.pc \in Range(Phases)
        /\ adapters' = [adapters EXCEPT ![k][c].keep_going = FALSE]
        /\ released' = done.released
        /\ loop_closed' = done.loop_closed
        /\ meta' = IF done.exc # NoExc
                   THEN [meta EXCEPT !.pc = "raised", !.exc = done.exc,
                                     !.at = <<k, c>>]
                   ELSE [meta EXCEPT !.pc = IF last THEN NextPhase(k) ELSE k,
                                     !.i = IF last THEN 1 ELSE meta.i + 1]
        /\ UNCHANGED <<contexts, procs, class_ex, objs>>
        /\ UNCHANGED nonMetaVars

\* A worker's loop() dispatches a call: the facade it inherited at its fork
\* begins the call to its next exchange, on that exchange's loop.
WorkerBegin(c) ==
    LET w == procs[c]
        e == w.order[w.idx]
    IN  /\ w.pc = "idle"
        /\ w.order # <<>>
        /\ procs' = [procs EXCEPT ![c] =
               [w EXCEPT !.pc = "calling",
                         !.inflight = Some(e),
                         !.used = @ \cup {[exchange |-> e,
                                           loop |-> LoopOf(c, e)]}]]
        /\ UNCHANGED <<contexts, meta, adapters>>
        /\ UNCHANGED <<class_ex, objs, released, loop_closed>>
        /\ UNCHANGED nonMetaVars

\* The call returns, or raises what the dispatch does not catch and ends
\* the worker.
WorkerEnd(c, crashes) ==
    LET w == procs[c]
    IN  /\ w.pc = "calling"
        /\ procs' = [procs EXCEPT ![c] =
               [w EXCEPT !.pc = IF crashes THEN "crashed" ELSE "idle",
                         !.inflight = None,
                         !.idx = (w.idx % Len(w.order)) + 1]]
        /\ UNCHANGED <<contexts, meta, adapters>>
        /\ UNCHANGED <<class_ex, objs, released, loop_closed>>
        /\ UNCHANGED nonMetaVars

MetaIdle ==
    /\ contexts = [c \in ContextIds |-> None]
    /\ meta = NoMeta
    /\ adapters = [k \in Range(Phases) |-> [c \in ContextIds |-> NoAdapter]]
    /\ procs = [c \in ContextIds |-> NoProc]

(***************************************************************************)
(* Specifications                                                          *)
(***************************************************************************)
LoaderIdle ==
    /\ exch = NewExchange("A", <<>>)
    /\ exch_exc = [phase |-> "new", exc |-> NoExc, fetched |-> FALSE,
                   reload |-> FALSE]

LoaderInit ==
    /\ exch \in {NewExchange("A", c) : c \in SeqUpTo(CurrencyCodes, MaxCurrencies)}
    /\ exch_exc = [phase |-> "new", exc |-> NoExc, fetched |-> FALSE,
                   reload |-> FALSE]
    /\ FanIdle
    /\ AdapterIdle
    /\ ShapeIdle
    /\ WsIdle
    /\ MetaIdle

LoaderNext ==
    \/ \E got \in Fetches : PostInit(got)
    \/ \E r \in BOOLEAN, got \in Fetches : Load(r, got)

\* One exchange object, loaded and reloaded against any catalogue.
SpecLoad == LoaderInit /\ [][LoaderNext]_vars

FanInit ==
    LoaderIdle /\ FanIdle /\ AdapterIdle /\ ShapeIdle /\ WsIdle /\ MetaIdle

\* Facade instances constructed, called and shut down in any order.
SpecFan == FanInit /\ [][FanNext]_vars

\* Any configured calls, against a handle without overrides.
LoopInit ==
    /\ LoaderIdle
    /\ FanIdle
    /\ ShapeIdle
    /\ WsIdle
    /\ MetaIdle
    /\ keep_going = [a \in AdapterIds |-> TRUE]
    /\ api = [a \in AdapterIds |-> None]
    /\ calls \in {[a \in AdapterIds |-> IF a = "a1" THEN c ELSE NoCalls] :
                     c \in CallConfigs}
    /\ worker = [a \in AdapterIds |-> NoWorker]
    /\ class_sched = <<>>
    /\ now = 0
    /\ last_call = NoCall
    /\ last_exec = NoExec

LoopNext == AdapterNext({"a1"}, {PlainHandle}, ThunkOutcomes)

\* The worker's loop over any configured calls, and its shutdown.
SpecLoop == LoopInit /\ [][LoopNext]_vars

\* Plain calls, against any handle.
CallInit ==
    /\ LoaderIdle
    /\ FanIdle
    /\ ShapeIdle
    /\ WsIdle
    /\ MetaIdle
    /\ keep_going = [a \in AdapterIds |-> TRUE]
    /\ api = [a \in AdapterIds |-> None]
    /\ calls \in {[a \in AdapterIds |-> IF a = "a1" THEN c ELSE NoCalls] :
                     c \in {d \in CallConfigs :
                                \A n \in CallNames :
                                    d[n] \in {None, Some(PlainCall)}}}
    /\ worker = [a \in AdapterIds |-> NoWorker]
    /\ class_sched = <<>>
    /\ now = 0
    /\ last_call = NoCall
    /\ last_exec = NoExec

CallNext == AdapterNext({"a1"}, Handles, ThunkOutcomes)

\* The worker's calls against any operation handle.
SpecCall == CallInit /\ [][CallNext]_vars

\* Two adapters, the first with one delayed call.
SchedInit ==
    /\ LoaderIdle
    /\ FanIdle
    /\ ShapeIdle
    /\ WsIdle
    /\ MetaIdle
    /\ keep_going = [a \in AdapterIds |-> TRUE]
    /\ api = [a \in AdapterIds |-> None]
    /\ calls = [a \in AdapterIds |->
                   IF a = "a1"
                   THEN [NoCalls EXCEPT !["orders"] =
                            Some([delay |-> Some(1), priority |-> Some(1)])]
                   ELSE NoCalls]
    /\ worker = [a \in AdapterIds |-> NoWorker]
    /\ class_sched = <<>>
    /\ now = 0
    /\ last_call = NoCall
    /\ last_exec = NoExec

SchedNext ==
    \/ AdapterNext(AdapterIds, {PlainHandle}, {"ok"})
    \/ \E a \in AdapterIds :
           OrchestratorCall(a, "ticker",
                            [delay |-> Some(1), priority |-> Some(1)], "ok")

\* Two adapters run from one process, and calls made on them in it.
SpecSched == SchedInit /\ [][SchedNext]_vars

ShapeInit ==
    LoaderIdle /\ FanIdle /\ AdapterIdle /\ ShapeIdle /\ WsIdle /\ MetaIdle

ShapeNext == \E d \in Payloads, c \in Contexts : Shape(d, c)

\* The result shaper on any payload in any schema context.
SpecShape == ShapeInit /\ [][ShapeNext]_vars

\* Any configured subscriptions.
WsInit ==
    /\ LoaderIdle
    /\ FanIdle
    /\ AdapterIdle
    /\ ShapeIdle
    /\ MetaIdle
    /\ wsock \in {[NoWs EXCEPT !.subscriptions = s] : s \in SUBSET Channels}
    /\ ws_last = NoMessage

WsNext ==
    \/ \E h \in BOOLEAN : WsRun(h)
    \/ WsShutdown
    \/ \E c \in Channels, m \in Messages, r \in BOOLEAN, v \in BOOLEAN :
           WsMessage(c, m, r, v)

\* The streaming adapter and its inbound messages.
SpecWs == WsInit /\ [][WsNext]_vars

\* Any one or two contexts.
MetaSpecInit ==
    /\ LoaderIdle
    /\ FanIdle
    /\ AdapterIdle
    /\ ShapeIdle
    /\ WsIdle
    /\ contexts \in {ctxs \in [ContextIds ->
                                   {None} \cup {Some(cf) : cf \in ContextConfs}] :
                         ctxs[ContextOrder[1]] # None}
    /\ meta = MetaInit(contexts)
    /\ adapters = [k \in Range(Phases) |-> [c \in ContextIds |-> NoAdapter]]
    /\ procs = [c \in ContextIds |-> NoProc]

MetaNext ==
    \/ MetaRun
    \/ \E fail_at \in 0..MaxExchanges, blocks \in BOOLEAN :
           MetaRunStep(fail_at, blocks)
    \/ MetaShutdown
    \/ MetaShutdownStep
    \/ \E c \in ContextIds : WorkerBegin(c)
    \/ \E c \in ContextIds, crashes \in BOOLEAN : WorkerEnd(c, crashes)

\* The orchestrator's run and shutdown over its contexts, and the workers.
SpecMeta == MetaSpecInit /\ [][MetaNext]_vars

(***************************************************************************)
(* Claims about the exchange facade (SpecFan)                              *)
(***************************************************************************)
\* The exchanges facade instance f was configured with.
Configured(f) == Get(facade[f])

(***************************************************************************)
(* C1.  Called on a facade in service, if the operations of M of its N     *)
(* configured exchanges raise ExchangeNotAvailable or ExchangeError and    *)
(* the others return, call_on_exchanges returns a mapping keyed by exactly *)
(* the N-M exchanges that did not raise, and raises nothing.               *)
(***************************************************************************)
C1_PartialResults ==
    ( /\ fan.op = "call_on_exchanges"
      /\ ~loop_closed
      /\ \A n \in Configured(fan.inst) :
             fan.outcome[n] \in {"ok"} \cup Swallowed )
    => /\ fan.exc = NoExc
       /\ fan.returned
       /\ fan.results = {n \in Configured(fan.inst) : fan.outcome[n] = "ok"}
       /\ Cardinality(fan.results) =
              Cardinality(Configured(fan.inst))
              - Cardinality({n \in Configured(fan.inst) :
                                 fan.outcome[n] \in Swallowed})

(***************************************************************************)
(* C2.  As claimed: an exception of an exchange operation that is neither  *)
(* ExchangeNotAvailable nor ExchangeError leaves call_on_exchanges as the  *)
(* same kind of exception, no mapping is returned and no later exchange is *)
(* called.                                                                 *)
(***************************************************************************)
C2_PropagatesUnmodified ==
    fan.op = "call_on_exchanges" =>
        \A i \in DOMAIN fan.called :
            LET o == fan.outcome[fan.called[i]]
            IN  o \notin {"ok"} \cup Swallowed =>
                    /\ i = Len(fan.called)
                    /\ ~fan.returned
                    /\ fan.exc = o

(***************************************************************************)
(* C2, amended.  Such an exception aborts the dispatch: no mapping is      *)
(* returned and no later exchange is called; the caller sees the same kind *)
(* of exception, except that a TypeError is seen as an AttributeError.     *)
(***************************************************************************)
C2_PropagatesAndAborts ==
    fan.op = "call_on_exchanges" =>
        \A i \in DOMAIN fan.called :
            LET o == fan.outcome[fan.called[i]]
            IN  o \notin {"ok"} \cup Swallowed =>
                    /\ i = Len(fan.called)
                    /\ ~fan.returned
                    /\ fan.results \subseteq {fan.called[k] : k \in 1..(i - 1)}
                    /\ fan.exc = IF o = "TypeError" THEN "AttributeError"
                                 ELSE o

\* The first of two exchanges raised a TypeError: the second was not called
\* and the caller saw an AttributeError.
C2_Witness ==
    /\ fan.op = "call_on_exchanges"
    /\ Len(fan.order) = 2
    /\ fan.called = <<fan.order[1]>>
    /\ fan.outcome[fan.order[1]] = "TypeError"
    /\ fan.exc = "AttributeError"

(***************************************************************************)
(* C10.  After the facade's shutdown, the connection of every exchange it  *)
(* was configured with has been released, and shutdown has not raised.     *)
(***************************************************************************)
C10_ShutdownReleasesAll ==
    fan.op = "shutdown" =>
        /\ fan.exc = NoExc
        /\ Configured(fan.inst) \subseteq released

(***************************************************************************)
(* C11.  When the facade's shutdown is invoked while asynchronous tasks    *)
(* are outstanding, cancellation has been requested for every one of them  *)
(* before the exchanges' connections are released.                         *)
(***************************************************************************)
C11_CancelsOutstandingTasks ==
    fan.op = "shutdown" => fan.outstanding \subseteq fan.cancelled

(***************************************************************************)
(* C19.  With more than one facade instance, each constructed with its own *)
(* list of exchanges, the mapping call_on_exchanges or call_over_syms      *)
(* returns on an instance holds only exchanges configured for that         *)
(* instance, and the shutdown of an instance releases only exchanges       *)
(* configured for that instance.                                           *)
(***************************************************************************)
C19_InstancesAreSeparate ==
    /\ ( fan.op \in {"call_on_exchanges", "call_over_syms"} /\ fan.returned )
           => fan.results \subseteq Configured(fan.inst)
    /\ fan.op = "shutdown" => fan.closed \subseteq Configured(fan.inst)

\* The derived symbol universe of exchange n, as the facade holds it.
Universe(n) == Range(Get(Get(objs[n]).symbols))

(***************************************************************************)
(* C16.  The mapping call_over_syms returns holds, for each exchange, an   *)
(* inner mapping whose keys are exactly the symbols of that exchange's     *)
(* derived symbol universe whose call did not raise ExchangeNotAvailable   *)
(* or ExchangeError: a failed symbol is absent, the operation has been     *)
(* invoked exactly once per symbol of the universe, and when the only      *)
(* failures are of these two kinds the calls for all symbols are made and  *)
(* the mapping is returned.                                                *)
(***************************************************************************)
C16_PerSymbolResults ==
    fan.op = "call_over_syms" =>
        /\ fan.returned =>
               \A n \in fan.results :
                   /\ {p[2] : p \in {q \in fan.inner : q[1] = n}}
                          = {sym \in Universe(n) :
                                 fan.outcome[<<n, sym>>] = "ok"}
                   /\ \A sym \in Universe(n) :
                          Cardinality({k \in DOMAIN fan.called :
                                          fan.called[k] = <<n, sym>>}) = 1
                   /\ \A k \in DOMAIN fan.called :
                          fan.called[k][1] = n
                              => fan.called[k][2] \in Universe(n)
        /\ ( /\ fan.exc # "RuntimeError"
             /\ \A n \in Range(fan.order) : \A sym \in Universe(n) :
                    fan.outcome[<<n, sym>>] \in {"ok"} \cup Swallowed )
           => /\ fan.returned
              /\ fan.results = Range(fan.order)

\* One exchange's universe has two symbols; the first failed with an
\* exchange error, the second was still called and is the only key.
C16_Witness ==
    /\ fan.op = "call_over_syms"
    /\ fan.returned
    /\ "B" \in fan.results
    /\ fan.outcome[<<"B", "USD/USD">>] = "ExchangeError"
    /\ fan.outcome[<<"B", "BTC/USD">>] = "ok"
    /\ <<"B", "BTC/USD">> \in fan.inner
    /\ <<"B", "USD/USD">> \notin fan.inner
    /\ \E k \in DOMAIN fan.called :
           /\ fan.called[k] = <<"B", "USD/USD">>
           /\ k < Len(fan.called)
           /\ fan.called[k + 1] = <<"B", "BTC/USD">>

(***************************************************************************)
(* Claims about the Scheduled Call Adapter (SpecLoop, SpecCall)            *)
(***************************************************************************)
(***************************************************************************)
(* C4.  Once shutdown() has been called on an adapter whose loop run()     *)
(* started, the loop dispatches no call in any pass that begins after it:  *)
(* the worker sees the cleared flag at the top of its next iteration.      *)
(***************************************************************************)
C4_NoDispatchAfterShutdown ==
    \A a \in AdapterIds : ~worker[a].late_dispatch

\* The operation the spec's precedence gives: the handle's method, else its
\* ENDPOINT_OVERRIDES entry, else the literal name.
ClaimedResolution(handle, callname) ==
    IF callname \in handle.methods
    THEN [kind |-> "method", name |-> callname]
    ELSE IF handle.overrides # None /\ callname \in Get(handle.overrides)
    THEN [kind |-> "name", name |-> EndpointOf(callname)]
    ELSE [kind |-> "name", name |-> callname]

(***************************************************************************)
(* C5.  ApiAdapter.call resolves the operation to the handle's same-named  *)
(* method, else to the handle's ENDPOINT_OVERRIDES entry, else to the      *)
(* literal name; in particular to the literal name when the table has no   *)
(* entry for it.                                                           *)
(***************************************************************************)
C5_OverridePrecedence ==
    last_call.callname # "" =>
        last_call.action =
            ClaimedResolution(Get(api[last_call.adapter]), last_call.callname)

(***************************************************************************)
(* C7.  A call registered with a delay d and a priority p is not executed  *)
(* before d time units have passed since it was registered, and no call    *)
(* that is pending for the same time with a lower priority value is left   *)
(* behind when it is executed.                                             *)
(***************************************************************************)
C7_DelayAndPriority ==
    last_exec.via = "scheduler" =>
        /\ last_exec.at >= last_exec.reg + last_exec.delay
        /\ \A j \in DOMAIN last_exec.rest :
               last_exec.rest[j].time = last_exec.reg + last_exec.delay
                   => last_exec.rest[j].priority >= last_exec.priority

\* A delayed call was executed while a call due at the same time, with a
\* higher priority value, was still pending.
C7_Witness ==
    /\ last_exec.via = "scheduler"
    /\ last_exec.delay >= 1
    /\ \E j \in DOMAIN last_exec.rest :
           /\ last_exec.rest[j].time = last_exec.reg + last_exec.delay
           /\ last_exec.rest[j].priority > last_exec.priority

(***************************************************************************)
(* C8.  A call given a delay, a priority or both is registered as pending  *)
(* scheduled work and is not executed before call() returns; a call given  *)
(* neither is executed once, inline, and nothing is added to the           *)
(* scheduler.                                                              *)
(***************************************************************************)
C8_ScheduledOrInline ==
    last_call.callname # "" =>
        IF last_call.data.delay # None \/ last_call.data.priority # None
        THEN last_call.registered /\ last_call.ran = 0
        ELSE ~last_call.registered /\ last_call.ran = 1

(***************************************************************************)
(* C17.  When the shaping of a request or of a result fails in a call made *)
(* through ApiAdapter.call, one diagnostic failure carrying the operation  *)
(* name passed to call() is raised, the callback is not invoked and the    *)
(* call is not made again; a failure raised by the handle or by the        *)
(* callback is not reported as a shaping failure.                          *)
(***************************************************************************)
C17_ShapingDiagnostics ==
    last_exec.res # None =>
        LET r == Get(last_exec.res)
        IN  /\ r.met \in {"request_unshapable", "result_unshapable"} =>
                   /\ r.exc = "Exception"
                   /\ r.diag = last_exec.callname
                   /\ ~r.delivered
                   /\ worker[last_exec.adapter].pc = "crashed"
            /\ r.met \in {"handle_raises", "callback_raises"} =>
                   r.exc \notin {NoExc, "Exception"}

(***************************************************************************)
(* C15.  The loop never waits inside scheduler.run() for scheduled work    *)
(* that is not yet due: whenever the worker is in scheduler.run() it can   *)
(* take its next step at once, executing a due event or returning to the   *)
(* top of the loop for the next pass of plain calls.                       *)
(***************************************************************************)
C15_NeverWaitsForDelayedWork ==
    \A a \in AdapterIds :
        worker[a].pc = "sched" =>
            ENABLED (\E i \in 1..MaxQueue, o \in ThunkOutcomes :
                         SchedulerRun(a, i, o))

(***************************************************************************)
(* C20.  Scheduled work registered through an adapter's call() is pending  *)
(* only in that adapter's own loop and is executed only by it: the queue   *)
(* of an adapter's worker holds no work of another adapter, and a thunk    *)
(* the scheduler runs belongs to the adapter whose loop runs it.           *)
(***************************************************************************)
C20_SchedulersAreSeparate ==
    /\ \A a \in AdapterIds : \A i \in DOMAIN worker[a].queue :
           worker[a].queue[i].owner = a
    /\ last_exec.via = "scheduler" => last_exec.owner = last_exec.adapter

(***************************************************************************)
(* Claims about the result shaper (SpecShape)                              *)
(***************************************************************************)
(***************************************************************************)
(* C6.  Every Result the shaper produces has at most one of result and     *)
(* errors populated: errors and a null result when the payload holds       *)
(* errors, a result and null errors otherwise.                             *)
(***************************************************************************)
C6_ResultOrErrors ==
    shaped.out # None =>
        LET r == Get(shaped.out)
        IN  /\ ~(r.result # None /\ r.errors # None)
            /\ IF shaped.data.errors # None
               THEN r.errors = shaped.data.errors /\ r.result = None
               ELSE r.result # None /\ r.errors = None

\* A payload holding both errors and a result was shaped for a call name the
\* response map knows.
C6_Witness ==
    /\ shaped.ran
    /\ shaped.out # None
    /\ shaped.data.errors # None
    /\ shaped.data.result = Some("tick")
    /\ shaped.context.callname = Some("ticker")

(***************************************************************************)
(* Claims about the Streaming Channel Adapter (SpecWs)                     *)
(***************************************************************************)
(***************************************************************************)
(* C9.  For every inbound message on a subscribed channel c exactly one of *)
(* two things happens: the callback is invoked once, with a shaped result  *)
(* tagged c and the handle's context, or a diagnostic failure naming c and *)
(* the message is raised.                                                  *)
(***************************************************************************)
C9_DeliveredOrFailed ==
    ws_last.channel # "" =>
        LET delivered ==
                /\ Len(ws_last.delivered) = 1
                /\ ws_last.delivered[1].channel = ws_last.channel
                /\ ws_last.delivered[1].context = HandleContext
            failed ==
                /\ ws_last.exc = "Exception"
                /\ ws_last.diag = Some([channel |-> ws_last.channel,
                                        data |-> ws_last.message])
        IN  /\ delivered \/ failed
            /\ ~(delivered /\ failed)
            /\ Len(ws_last.delivered) <= 1

(***************************************************************************)
(* Claims about the metadata loader (SpecLoad)                             *)
(***************************************************************************)
(***************************************************************************)
(* C3.  After any sequence of loads, every element of the derived symbol   *)
(* universe is an available symbol and is the slash-join of two entries of *)
(* the configured-currency set; self-pairs are kept.                       *)
(***************************************************************************)
C3_DerivedUniverse ==
    exch.symbols # None =>
        \A i \in DOMAIN Get(exch.symbols) :
            LET sym == Get(exch.symbols)[i]
            IN  /\ sym \in Get(exch.avail_symbols)
                /\ \E a, b \in Range(Get(exch._currencies)) : sym = Join(a, b)

\* A reload has left a universe holding an ordinary pair and a self-pair,
\* while the exchange lists a symbol that is left out.
C3_Witness ==
    /\ exch_exc.phase = "ready"
    /\ exch.symbols = Some(<<"USD/USD", "BTC/USD">>)
    /\ "ETH/USD" \in Get(exch.avail_symbols)

(***************************************************************************)
(* C18.  Once a load has completed, a further load without reload does not *)
(* invoke load_markets and leaves every metadata field as it was, also     *)
(* when the derived symbol universe is empty; a load with reload does      *)
(* invoke load_markets again.                                              *)
(***************************************************************************)
C18_LoadIdempotent ==
    [][ ( exch_exc.phase = "ready" /\ exch.markets # None )
           => IF exch_exc'.reload
              THEN exch_exc'.fetched
              ELSE exch' = exch /\ ~exch_exc'.fetched ]_vars

\* A load without reload has been skipped on an exchange whose derived
\* symbol universe is empty although the exchange lists symbols.
C18_Witness ==
    /\ exch_exc.phase = "ready"
    /\ ~exch_exc.reload
    /\ ~exch_exc.fetched
    /\ exch.symbols = Some(<<>>)
    /\ Get(exch.avail_symbols) # {}

(***************************************************************************)
(* Claims about the orchestrator (SpecMeta)                                *)
(***************************************************************************)
\* The adapters of list k that run() has started, and those shutdown() has
\* stopped.
Started(k) == {c \in ContextIds : adapters[k][c].proc = "started"}

Stopped(k) == {c \in ContextIds : ~adapters[k][c].keep_going}

(***************************************************************************)
(* C14.  run() starts every streaming adapter before it starts any         *)
(* scheduled adapter, shutdown() stops every streaming adapter before any  *)
(* scheduled adapter, and there is exactly one adapter of each kind per    *)
(* context.                                                                *)
(***************************************************************************)
C14_StreamingFirst ==
    /\ Started("apis") # {} => Started("wsocks") = Range(meta.wsocks)
    /\ Stopped("apis") # {} => Stopped("wsocks") = Range(meta.wsocks)
    /\ \A k \in {"wsocks", "apis"} :
           /\ Range(meta[k]) = {c \in ContextIds : contexts[c] # None}
           /\ Len(meta[k]) = Cardinality(Range(meta[k]))

\* With two contexts, shutdown has stopped both streaming adapters and the
\* first scheduled adapter, the second being still in service; run() had
\* started all four.
C14_Witness ==
    /\ meta.op = "shutdown"
    /\ Len(meta.apis) = 2
    /\ Started("wsocks") = ContextIds
    /\ Started("apis") = ContextIds
    /\ Stopped("wsocks") = ContextIds
    /\ Stopped("apis") = {meta.apis[1]}

(***************************************************************************)
(* C13.  With two or more contexts, a crash or a blocking call in one      *)
(* context, the construction of its handle and its metadata load in run()  *)
(* included, does not keep another context's scheduled loop from being     *)
(* started, and does not keep run() from returning.                        *)
(***************************************************************************)
C13_ContextsAreIsolated ==
    meta.op = "run" =>
        /\ meta.pc # "blocked"
        /\ meta.pc = "raised" =>
               \A c \in Range(meta.apis) :
                   c # meta.at[2] => adapters["apis"][c].proc = "started"

(***************************************************************************)
(* C12.  At most one call to any exchange is in flight at a time, over all *)
(* contexts, and the event loop an exchange's calls are run through is     *)
(* that exchange's own: no two exchanges have used the same loop.          *)
(***************************************************************************)
C12_SerializedPrivateLoops ==
    /\ \A e \in ExchangeNames :
           Cardinality({c \in ContextIds : procs[c].inflight = Some(e)}) <= 1
    /\ \A c1, c2 \in ContextIds :
           \A u1 \in procs[c1].used, u2 \in procs[c2].used :
               u1.exchange # u2.exchange => u1.loop # u2.loop
====
